---- MODULE Spec2Model ----
(***************************************************************************)
(* Outbound routing core of the proxy:                                     *)
(*   - proxy/http/balance.rs : the fallback composer (Service) built over  *)
(*     a tower Balance and a fallback router;                              *)
(*   - proxy/resbal.rs       : the discovery adapter (Discover::poll);     *)
(*   - proxy/canonicalize.rs : the canonicalizer Task and its consumer     *)
(*     facing Service.                                                     *)
(* The two halves (balance and canonicalize) do not share state; each has  *)
(* its own specification (SpecBalance, SpecCanon) over the same variables. *)
(***************************************************************************)
EXTENDS Integers, Sequences, FiniteSets, TLC

\* ------------------------------------------------------------------ bounds
\* Longest backlog of updates the resolution stream holds between two polls.
MaxPending == 2

\* Number of polls of the discovery adapter whose history is kept.
MaxEvents == 3

\* Requests sent through the hedge decorator.
MaxRequests == 2

\* Largest retry budget a target may supply.
MaxBudget == 1

\* MakeFutures created by MakeSvc::call.
MaxFutures == 2

\* Polls of one MakeFuture.
MaxPolls == 3

\* Last instant of the clock; no timer fires and no query is answered
\* after it.
MaxTime == 5

\* Layer::timeout, the configured bound on one DNS query, in seconds.
Timeout == 2

\* ------------------------------------------------------------- vocabulary
None == "None"

\* Endpoint keys (socket addresses) the resolution source may name.
Addrs == {"10.0.0.1:80", "10.0.0.2:80"}

\* Endpoint descriptors: the endpoint stack builds a service for "ok" and
\* fails for "bad".
EndpointTargets == {"ok", "bad"}

\* resbal.rs Update<T>, plus the failure of Resolution::poll.
Updates ==
    [op : {"Add"}, addr : Addrs, target : EndpointTargets]
        \cup [op : {"Remove"}, addr : Addrs]
        \cup [op : {"Fail"}]

Readiness == {"Ready", "NotReady"}

VARIABLES
    \* ---- balance half
    resolution,     \* updates the resolution stream holds, oldest first
    endpoints,      \* Endpoint Set of the discovery adapter (keys)
    count,          \* live endpoint count kept next to the flag
    is_empty,       \* EndpointStatus: the shared emptiness flag
    pool,           \* keys the Balance knows (ready and not ready)
    chosen,         \* Balance::chosen_ready_index (a key) or None
    fallback,       \* current readiness of the fallback router service
    pending,        \* the caller holds a request it has not dispatched
    lastPoll,       \* outcome of the last Service::poll_ready, or None
    lastCall,       \* outcome of the last Service::call, or None
    consumed,       \* history: the updates Discover::poll received, in order
    emitted,        \* history: what Discover::poll returned for each of them
    \* ---- canonicalize half: the Task
    state,          \* Task::state: Init, Pending, ValidUntil; Done once the
                    \* task's future has completed
    resolved,       \* Task::resolved, the Cache
    deadline,       \* deadline of the Delay held by State::ValidUntil
    queryStart,     \* time the pending refine was issued (Timeout's origin)
    chan,           \* messages queued in the mpsc channel, oldest first
    rxAlive,        \* the Receiver (the Service) has not been dropped
    now,            \* clock::now(), in seconds
    \* ---- canonicalize half: the Service
    service,        \* Service::service: the target it was built from
    svcPoll,        \* outcome of the last Service::poll_ready
    \* ---- canonicalize half: history
    lastOutcome,    \* the last DNS outcome the task handled
    nSent,          \* number of values enqueued on the channel so far
    lastSent,       \* the last value enqueued on the channel
    lastDrained,    \* the last value the Service took off the channel
    chanSeq,        \* for each queued message, its rank among the values
                    \* enqueued so far
    appliedSeq,     \* rank of the value the held service was built from
    sinceOutcome,   \* DNS queries issued since the last outcome was handled
                    \* (since the task started, before the first outcome)
    original,       \* Task::original, NoTarget while there is no task
    made,           \* what Stack::make was given and what it returned
    svcCall,        \* outcome of the Service::call made since the last
                    \* readiness check
    \* ---- hedge half
    hedgeMade,      \* what hedge Stack::make was given and what it returned
    tokens,         \* Retry Budget: speculative retries still permitted
    reqs,           \* per request: its primary, its timer, its retry and
                    \* the result handed back
    \* ---- MakeFuture
    futs            \* per MakeFuture: its Making, the discovery future it
                    \* wraps, and what its polls returned

balanceVars ==
    <<resolution, endpoints, count, is_empty, pool, chosen, fallback,
      pending, lastPoll, lastCall, consumed, emitted>>

canonVars ==
    <<state, resolved, deadline, queryStart, chan, rxAlive, now, service,
      svcPoll, lastOutcome, nSent, lastSent, lastDrained, chanSeq,
      appliedSeq, sinceOutcome, original, made, svcCall>>

hedgeVars == <<hedgeMade, tokens, reqs>>

makeVars == <<futs>>

vars == <<balanceVars, canonVars, hedgeVars, makeVars>>

\* ======================================================================
\*                 CANONICALIZE HALF: values
\* ======================================================================

\* canonicalize.rs DNS_ERROR_TTL, in seconds.
DNS_ERROR_TTL == 3

\* Buffer size handed to mpsc::channel in Stack::make.
ChannelBuffer == 2

\* The Task is the channel's only Sender.
NumSenders == 1

\* Names DNS may refine the original name to; "web" is the original name
\* itself.
Names == {"web", "web.example.com."}

\* TTLs of a successful refinement, in seconds.
TTLs == {1, 2}

\* No target: Option::None for a target-valued field.
NoTarget == [name |-> "", port |-> 0, origin |-> None]

\* The target handed to Stack::make: the name-based Addr `web:8080`.  The
\* origin field records why a value was published ("original": the
\* unrefined target after a failure; "resolved": a refined target); it is
\* not part of the target and is ignored by Eq.
Original == [name |-> "web", port |-> 8080, origin |-> "original"]

\* A target that is a socket address: there is no name to refine.
Concrete == [name |-> "10.0.0.1", port |-> 8080, origin |-> "original"]

\* The targets Stack::make may be given.
Targets == {Original, Concrete}

\* Canonicalize::uncanonical_name for Addr: the name of a name-based
\* target, and no name ("") for a socket address.
UncanonicalName(t) == IF t = Concrete THEN "" ELSE t.name

\* ShouldCanonicalize, were every target taken for a name to refine.
ShouldCanonicalize_Always(t) == TRUE

\* Canonicalize::should_canonicalize.
ShouldCanonicalize(t) == UncanonicalName(t) # ""

\* Eq on targets.
SameTarget(a, b) == a.name = b.name /\ a.port = b.port

\* Canonicalize::with_canonical: for Addr::Name the canonical name with the
\* original's port; a socket address is cloned.
WithCanonical(orig, canonical) ==
    IF UncanonicalName(orig) = "" THEN orig
    ELSE [name |-> canonical, port |-> orig.port, origin |-> "resolved"]

\* Cache values.
AwaitingInitial == [tag |-> "AwaitingInitial", value |-> NoTarget]
Unresolved == [tag |-> "Unresolved", value |-> NoTarget]
Resolved(n) == [tag |-> "Resolved", value |-> n]

\* Cache::get.
CacheGet(cache) == IF cache.tag = "Resolved" THEN cache.value ELSE NoTarget

\* Negative-cache TTLs a no-records error may carry, in seconds.
NegTTLs == {1}

\* DNS outcomes of one refine call wrapped in Timeout: a refinement with
\* its TTL; a no-records error, with a negative-cache deadline (cached,
\* negTtl seconds from now) or without one; another resolver error; the
\* timeout elapsing.
Successes == [kind : {"Ok"}, name : Names, ttl : TTLs]
Failures ==
    [kind : {"NoRecords"}, cached : {TRUE}, negTtl : NegTTLs]
        \cup [kind : {"NoRecords", "Other", "Elapsed"}, cached : {FALSE},
              negTtl : {0}]

\* ======================================================================
\*                 CANONICALIZE HALF: Stack::make
\* ======================================================================

\* Stack::make has not been called.
NotMade == [either |-> None, name |-> NoTarget, inner |-> NoTarget]

\* Stack::make(name).  For a target to canonicalize: the channel is created,
\* the Task is spawned (the executor polls it and State::Init issues the
\* first refine) and Either::A, a Service holding no service, is returned;
\* the inner stack is not called.  For any other target: the inner stack's
\* make is called with the target as given, and its value (Either::B) or
\* its error is returned.
StackMake ==
    /\ made = NotMade
    /\ \E name \in Targets :
         IF ShouldCanonicalize(name)
         THEN /\ made' = [either |-> "A", name |-> name, inner |-> NoTarget]
              /\ original' = name
              /\ rxAlive' = TRUE
              /\ state' = "Pending"
              /\ queryStart' = now
              /\ sinceOutcome' = 1
         ELSE /\ \E ok \in BOOLEAN :
                   made' = [either |-> IF ok THEN "B" ELSE "Err",
                            name |-> name, inner |-> name]
              /\ UNCHANGED <<original, rxAlive, state, queryStart,
                             sinceOutcome>>
    /\ UNCHANGED <<resolved, deadline, chan, now, service, svcPoll,
                   lastOutcome, nSent, lastSent, lastDrained, chanSeq,
                   appliedSeq, svcCall>>
    /\ UNCHANGED <<balanceVars, hedgeVars, makeVars>>

\* ======================================================================
\*                 CANONICALIZE HALF: the Task
\* ======================================================================

\* TrySend, were a dropped Receiver not to disconnect the channel.
TrySend_IgnoresClose(ch, alive) ==
    IF Len(ch) >= ChannelBuffer + NumSenders THEN "Full" ELSE "Ok"

\* TrySend, were the channel to take a single message.
TrySend_SingleSlot(ch, alive) ==
    IF ~alive THEN "Disconnected"
    ELSE IF Len(ch) >= 1 THEN "Full"
    ELSE "Ok"

\* Sender::try_send on a channel holding `ch`: the channel takes
\* buffer + num-senders messages; a dropped Receiver disconnects it.
TrySend(ch, alive) ==
    IF ~alive THEN "Disconnected"
    ELSE IF Len(ch) >= ChannelBuffer + NumSenders THEN "Full"
    ELSE "Ok"

\* Enqueue, were the newest message to be handed out first.
Enqueue_Front(ch, v) == <<v>> \o ch

\* The channel's queue push: messages leave in the order they entered.
Enqueue(ch, v) == Append(ch, v)

\* NeedsPublish, were the comparison to skip a cache that holds no name.
NeedsPublish_OnlyWhenCached(cache, refined) ==
    cache.tag = "Resolved" /\ ~SameTarget(cache.value, refined)

\* NeedsPublish, were a cache without a name taken to stand for the
\* original target.
NeedsPublish_UnresolvedIsOriginal(cache, refined) ==
    IF cache.tag = "Resolved" THEN ~SameTarget(cache.value, refined)
    ELSE IF cache.tag = "Unresolved" THEN ~SameTarget(Original, refined)
    ELSE TRUE

\* Task::poll line 206: a refinement is published when it differs from the
\* cached value.
NeedsPublish(cache, refined) ==
    ~(cache.tag = "Resolved" /\ SameTarget(CacheGet(cache), refined))

\* PublishOnFailure, were it to test for the absence of a resolved name.
PublishOnFailure_NotResolved(cache) == cache.tag # "Resolved"

\* PublishOnFailure, were every failure to publish the original name.
PublishOnFailure_Always(cache) == TRUE

\* PublishOnFailure, were a failure to publish the original name whenever
\* it differs from the cached one.
PublishOnFailure_WhenDiffers(cache) ==
    cache = AwaitingInitial
       \/ (cache.tag = "Resolved" /\ ~SameTarget(cache.value, Original))

\* Task::poll line 218: a failure publishes the original name only while
\* the service has not been notified of any value.
PublishOnFailure(cache) == cache = AwaitingInitial

\* RetryAt, were the negative-cache deadline of the error not looked at.
RetryAt_IgnoresNegativeTtl(failure, t) == t + DNS_ERROR_TTL

\* RetryAt, were an elapsed timeout followed by a new query at once.
RetryAt_NoBackoffOnTimeout(failure, t) ==
    IF failure.kind = "Elapsed" THEN t
    ELSE IF failure.kind = "NoRecords" /\ failure.cached
    THEN t + failure.negTtl
    ELSE t + DNS_ERROR_TTL

\* Task::poll lines 243-251: when to query again after a failure.
RetryAt(failure, t) ==
    IF failure.kind = "NoRecords" /\ failure.cached
    THEN t + failure.negTtl
    ELSE t + DNS_ERROR_TTL

\* DelayFired, were the Delay never to complete.
DelayFired_Never(d, t) == FALSE

\* Delay::poll at time t of a Delay armed for d: ready from d on.
DelayFired(d, t) == d <= t

\* AfterValidUntil, were the next query issued without waiting.
AfterValidUntil_Requery(d, t) == "Pending"

\* The loop of Task::poll after it stored State::ValidUntil(Delay(d)): the
\* Delay is polled at once; an elapsed one sends the task through Init to a
\* new Pending query.
AfterValidUntil(d, t) == IF DelayFired(d, t) THEN "Pending" ELSE "ValidUntil"

\* No failure: the failure field of an outcome that is not one.
NoFailure == [kind |-> None, cached |-> FALSE, negTtl |-> 0]

NoOutcome == [kind |-> None, target |-> NoTarget, cache |-> AwaitingInitial,
              prevSent |-> NoTarget, send |-> None, failure |-> NoFailure]

\* Common part of handling an outcome: `value` is the value to publish (or
\* NoTarget to publish nothing), `cache` the cache to store after a send
\* that did not find the channel disconnected, `d` the next deadline,
\* `failure` the error handled (NoFailure for a refinement).
Handle(kind, target, value, cache, d, failure) ==
    LET send == IF value = NoTarget THEN None ELSE TrySend(chan, rxAlive)
    IN  /\ lastOutcome' = [kind |-> kind, target |-> target,
                           cache |-> resolved, prevSent |-> lastSent,
                           send |-> send, failure |-> failure]
        /\ chan' = IF send = "Ok" THEN Enqueue(chan, value) ELSE chan
        /\ chanSeq' = IF send = "Ok" THEN Enqueue(chanSeq, nSent + 1)
                       ELSE chanSeq
        /\ nSent' = IF send = "Ok" THEN nSent + 1 ELSE nSent
        /\ lastSent' = IF send = "Ok" THEN value ELSE lastSent
        /\ IF send = "Disconnected"
           THEN /\ state' = "Done"
                /\ sinceOutcome' = 0
                /\ UNCHANGED <<resolved, deadline, queryStart>>
           ELSE /\ resolved' = IF value = NoTarget THEN resolved ELSE cache
                /\ state' = AfterValidUntil(d, now)
                /\ deadline' = d
                /\ queryStart' = IF AfterValidUntil(d, now) = "Pending"
                                  THEN now ELSE queryStart
                /\ sinceOutcome' = IF AfterValidUntil(d, now) = "Pending"
                                    THEN 1 ELSE 0
        /\ UNCHANGED <<rxAlive, now, service, svcPoll, lastDrained,
                       appliedSeq>>
        /\ UNCHANGED <<original, made, svcCall>>
        /\ UNCHANGED <<original, made, svcCall>>
    /\ UNCHANGED <<balanceVars, hedgeVars, makeVars>>

\* Task::poll, State::Pending, Ok(Async::Ready(refine)).
TaskRefined ==
    /\ state = "Pending"
    /\ \E ok \in Successes :
         LET refined == WithCanonical(original, ok.name)
         IN  Handle("Ok", refined,
                    IF NeedsPublish(resolved, refined) THEN refined
                    ELSE NoTarget,
                    Resolved(refined), now + ok.ttl, NoFailure)

\* Task::poll, State::Pending, Err(e): the resolver failed, or the Timeout
\* around it elapsed.
TaskFailed ==
    /\ state = "Pending"
    /\ \E e \in Failures :
         /\ e.kind = "Elapsed" => now >= queryStart + Timeout
         /\ Handle("Err", NoTarget,
                   IF PublishOnFailure(resolved) THEN original ELSE NoTarget,
                   Unresolved, RetryAt(e, now), e)

\* Task::poll, State::ValidUntil, the Delay fired: back to Init, which
\* issues the next refine at once.
TaskExpired ==
    /\ state = "ValidUntil"
    /\ DelayFired(deadline, now)
    /\ state' = "Pending"
    /\ queryStart' = now
    /\ sinceOutcome' = sinceOutcome + 1
    /\ UNCHANGED <<resolved, deadline, chan, rxAlive, now, service, svcPoll,
                   lastOutcome, nSent, lastSent, lastDrained, chanSeq,
                   appliedSeq>>
    /\ UNCHANGED <<original, made, svcCall>>
    /\ UNCHANGED <<balanceVars, hedgeVars, makeVars>>

\* Time passes; the clock counts from the call of Stack::make.
Tick ==
    /\ made # NotMade
    /\ now < MaxTime
    /\ now' = now + 1
    /\ UNCHANGED <<state, resolved, deadline, queryStart, chan, rxAlive,
                   service, svcPoll, lastOutcome, nSent, lastSent,
                   lastDrained, chanSeq, appliedSeq, sinceOutcome>>
    /\ UNCHANGED <<original, made, svcCall>>
    /\ UNCHANGED <<balanceVars, hedgeVars, makeVars>>

\* The origin of the clock moves one second forward: every instant the
\* task holds reads one less, and nothing it compares changes (an instant
\* already in the past stays in the past).  Done at the clock's horizon once
\* the consumer is gone, when no counter of published values grows any
\* more, so that the task's time has no end.
Rebase ==
    /\ ~rxAlive
    /\ state \in {"Pending", "ValidUntil"}
    /\ now = MaxTime
    /\ now' = now - 1
    /\ deadline' = IF deadline > 0 THEN deadline - 1 ELSE 0
    /\ queryStart' = IF queryStart > 0 THEN queryStart - 1 ELSE 0
    /\ UNCHANGED <<state, resolved, chan, rxAlive, service, svcPoll,
                   lastOutcome, nSent, lastSent, lastDrained, chanSeq,
                   appliedSeq, sinceOutcome>>
    /\ UNCHANGED <<original, made, svcCall>>
    /\ UNCHANGED <<balanceVars, hedgeVars, makeVars>>

\* ======================================================================
\*                 CANONICALIZE HALF: the Service
\* ======================================================================

\* Drain, were the first value built to be kept and later ones dropped.
Drain_KeepsFirst(ch, svc, failAt) ==
    LET taken == IF failAt = 0 THEN Len(ch) ELSE failAt
        built == IF failAt = 0 THEN Len(ch) ELSE failAt - 1
    IN  [service |-> IF built = 0 THEN svc ELSE ch[1],
         rest    |-> SubSeq(ch, taken + 1, Len(ch)),
         last    |-> IF taken = 0 THEN NoTarget ELSE ch[taken],
         taken   |-> taken,
         makes   |-> taken,
         error   |-> failAt # 0]

\* Drain, were a failing make to take the held service away and to discard
\* what is queued behind the failing value.
Drain_DropsOnError(ch, svc, failAt) ==
    LET taken == IF failAt = 0 THEN Len(ch) ELSE failAt
        built == IF failAt = 0 THEN Len(ch) ELSE failAt - 1
    IN  [service |-> IF failAt # 0 THEN NoTarget
                     ELSE IF built = 0 THEN svc ELSE ch[built],
         rest    |-> <<>>,
         last    |-> IF taken = 0 THEN NoTarget ELSE ch[taken],
         taken   |-> taken,
         makes   |-> taken,
         error   |-> failAt # 0]

\* The drain loop of Service::poll_ready over the queued values `ch`, the
\* inner stack's make failing for the failAt-th of them (0: for none).
\* Each value taken is handed to make (`makes` counts the calls); each one
\* built replaces the held service; a failure returns at once and leaves
\* the values behind it queued.
Drain(ch, svc, failAt) ==
    LET taken == IF failAt = 0 THEN Len(ch) ELSE failAt
        built == IF failAt = 0 THEN Len(ch) ELSE failAt - 1
    IN  [service |-> IF built = 0 THEN svc ELSE ch[built],
         rest    |-> SubSeq(ch, taken + 1, Len(ch)),
         last    |-> IF taken = 0 THEN NoTarget ELSE ch[taken],
         taken   |-> taken,
         makes   |-> taken,
         error   |-> failAt # 0]

\* ServiceReadiness, were the missing service not to be checked for.
ServiceReadiness_Inner(svc, inner) == inner

\* Service::poll_ready lines 305-311: the held service's readiness, or
\* NotReady while there is none.
ServiceReadiness(svc, inner) ==
    IF svc = NoTarget THEN "NotReady" ELSE inner

NoSvcPoll == [kind |-> None, received |-> FALSE, taken |-> 0, makes |-> 0,
              makeErr |-> FALSE]

NoSvcCall == [called |-> FALSE, panic |-> FALSE, target |-> NoTarget,
              afterReady |-> FALSE, applied |-> 0]

\* CallPanics, were the missing service not to be noticed.
CallPanics_Never(svc) == FALSE

\* Service::call lines 315-317: expect("poll_ready must be called first")
\* on the held service.
CallPanics(svc) == svc = NoTarget

\* Service::poll_ready.
SvcPollReady ==
    /\ rxAlive
    /\ \E failAt \in 0..Len(chan) :
         LET d == Drain(chan, service, failAt)
         IN  /\ service' = d.service
             /\ chan' = d.rest
             /\ lastDrained' = IF d.last = NoTarget THEN lastDrained
                               ELSE d.last
             /\ chanSeq' = Drain(chanSeq, appliedSeq, failAt).rest
             /\ appliedSeq' = Drain(chanSeq, appliedSeq, failAt).service
             /\ \E inner \in {"Ready", "NotReady", "Err"} :
                  svcPoll' =
                    [kind |-> IF d.error THEN "Err"
                              ELSE ServiceReadiness(d.service, inner),
                     received |-> (lastDrained # NoTarget
                                    \/ d.last # NoTarget),
                     taken |-> d.taken,
                     makes |-> d.makes,
                     makeErr |-> d.error]
    /\ svcCall' = NoSvcCall
    /\ UNCHANGED <<state, resolved, deadline, queryStart, rxAlive, now,
                   lastOutcome, nSent, lastSent, sinceOutcome>>
    /\ UNCHANGED <<original, made>>
    /\ UNCHANGED <<balanceVars, hedgeVars, makeVars>>

\* Service::call: the request goes to the held service; without one the
\* expect panics.
SvcCall ==
    /\ rxAlive
    /\ svcCall = NoSvcCall
    /\ svcCall' = [called |-> TRUE,
                   panic |-> CallPanics(service),
                   target |-> service,
                   afterReady |-> (svcPoll.kind = "Ready"),
                   applied |-> appliedSeq]
    /\ UNCHANGED <<state, resolved, deadline, queryStart, chan, rxAlive, now,
                   service, svcPoll, lastOutcome, nSent, lastSent,
                   lastDrained, chanSeq, appliedSeq, sinceOutcome>>
    /\ UNCHANGED <<original, made>>
    /\ UNCHANGED <<balanceVars, hedgeVars, makeVars>>

\* The Service is dropped, and with it its Receiver and the service it
\* holds: the channel closes, what it holds is discarded, and nothing is
\* left of the consumer.
SvcDrop ==
    /\ rxAlive
    /\ rxAlive' = FALSE
    /\ chan' = <<>>
    /\ chanSeq' = <<>>
    /\ service' = NoTarget
    /\ svcPoll' = NoSvcPoll
    /\ lastDrained' = NoTarget
    /\ appliedSeq' = 0
    /\ svcCall' = NoSvcCall
    /\ UNCHANGED <<state, resolved, deadline, queryStart, now,
                   lastOutcome, nSent, lastSent, sinceOutcome>>
    /\ UNCHANGED <<original, made>>
    /\ UNCHANGED <<balanceVars, hedgeVars, makeVars>>

NextCanon ==
    \/ StackMake
    \/ TaskRefined
    \/ TaskFailed
    \/ TaskExpired
    \/ Tick
    \/ Rebase
    \/ SvcPollReady
    \/ SvcCall
    \/ SvcDrop

\* ======================================================================
\*                      BALANCE HALF: discovery
\* ======================================================================

\* The endpoint stack's make(): Ok for a descriptor it can build, Err
\* otherwise.
MakeEndpoint(target) == IF target = "ok" THEN "Ok" ELSE "Err"

\* What Discover::poll returns: a Change (Insert with the key and the
\* service built, named by the descriptor it was built from; Remove with
\* the key) or an error with its variant; `makes` counts the calls of the
\* endpoint stack's make.
Change(kind, addr, svc, error, makes) ==
    [kind |-> kind, addr |-> addr, svc |-> svc, error |-> error,
     makes |-> makes]

\* DiscoverPoll, were the endpoint stack also called for a Remove.
DiscoverPoll_MakesOnRemove(up) ==
    CASE up.op = "Fail" -> Change("Err", None, None, "Resolve", 0)
      [] up.op = "Add" ->
            IF MakeEndpoint(up.target) = "Err"
            THEN Change("Err", None, None, "Stack", 1)
            ELSE Change("Insert", up.addr, up.target, None, 1)
      [] up.op = "Remove" -> Change("Remove", up.addr, None, None, 1)

\* DiscoverPoll, were both failures reported under the same variant.
DiscoverPoll_Untagged(up) ==
    CASE up.op = "Fail" -> Change("Err", None, None, "Resolve", 0)
      [] up.op = "Add" ->
            IF MakeEndpoint(up.target) = "Err"
            THEN Change("Err", None, None, "Resolve", 1)
            ELSE Change("Insert", up.addr, up.target, None, 1)
      [] up.op = "Remove" -> Change("Remove", up.addr, None, None, 0)

\* One turn of resbal.rs Discover::poll on the update `up` it received from
\* Resolution::poll: the Change it returns, or the tagged error.
DiscoverPoll(up) ==
    CASE up.op = "Fail" -> Change("Err", None, None, "Resolve", 0)
      [] up.op = "Add" ->
            IF MakeEndpoint(up.target) = "Err"
            THEN Change("Err", None, None, "Stack", 1)
            ELSE Change("Insert", up.addr, up.target, None, 1)
      [] up.op = "Remove" -> Change("Remove", up.addr, None, None, 0)

\* StatusApply, were a Remove to set the flag whatever the count.
StatusApply_RemoveSetsEmpty(st, change) ==
    CASE change.kind = "Insert" /\ change.addr \notin st.endpoints ->
            [endpoints |-> st.endpoints \cup {change.addr},
             count     |-> st.count + 1,
             is_empty  |-> FALSE]
      [] change.kind = "Remove" /\ change.addr \in st.endpoints ->
            [endpoints |-> st.endpoints \ {change.addr},
             count     |-> st.count - 1,
             is_empty  |-> TRUE]
      [] OTHER -> st

\* Endpoint Set and emptiness flag of the adapter.  The count moves with
\* every cardinality change of the set and the flag is written next to it:
\* Add increments and clears the flag, Remove decrements and sets the flag
\* when the count reaches zero.  An Add of a bound key or a Remove of a
\* missing key changes no cardinality.
StatusApply(st, change) ==
    CASE change.kind = "Insert" /\ change.addr \notin st.endpoints ->
            [endpoints |-> st.endpoints \cup {change.addr},
             count     |-> st.count + 1,
             is_empty  |-> FALSE]
      [] change.kind = "Remove" /\ change.addr \in st.endpoints ->
            [endpoints |-> st.endpoints \ {change.addr},
             count     |-> st.count - 1,
             is_empty  |-> (st.count - 1 = 0)]
      [] OTHER -> st

\* tower Balance::update_from_discover on one Change: an Insert (re)binds
\* the key, a Remove ejects it if known.
BalanceApply(keys, change) ==
    CASE change.kind = "Insert" -> keys \cup {change.addr}
      [] change.kind = "Remove" -> keys \ {change.addr}
      [] OTHER -> keys

\* Balance::update_from_discover: poll the discover stream until it has
\* nothing more (NotReady) or fails.  `d` carries the pool, the adapter's
\* status, the updates not yet consumed and the error met, if any.
RECURSIVE UpdateFromDiscover(_)
UpdateFromDiscover(d) ==
    IF d.rest = <<>> THEN d
    ELSE LET change == DiscoverPoll(Head(d.rest))
         IN  IF change.kind = "Err"
             THEN [d EXCEPT !.rest = Tail(d.rest), !.error = change.error]
             ELSE UpdateFromDiscover(
                    [d EXCEPT !.rest   = Tail(d.rest),
                              !.status = StatusApply(d.status, change),
                              !.pool   = BalanceApply(d.pool, change)])

\* Discover::poll found the resolution stream not ready.
NotReadyChange == Change("NotReady", None, None, None, 0)

\* DiscoverTurn, were the loop to go round again after a Remove instead of
\* returning it.
DiscoverTurn_SkipsRemove(q) ==
    IF q = <<>>
    THEN [result |-> NotReadyChange, taken |-> <<>>, rest |-> q]
    ELSE IF Head(q).op = "Remove" /\ Len(q) > 1
    THEN [result |-> DiscoverPoll(q[2]), taken |-> SubSeq(q, 1, 2),
          rest |-> SubSeq(q, 3, Len(q))]
    ELSE [result |-> DiscoverPoll(Head(q)), taken |-> <<Head(q)>>,
          rest |-> Tail(q)]

\* One call of Discover::poll on the resolution stream holding `q`:
\* try_ready! returns NotReady when the stream has nothing; otherwise the
\* one update taken is answered and the call returns.
DiscoverTurn(q) ==
    IF q = <<>>
    THEN [result |-> NotReadyChange, taken |-> <<>>, rest |-> q]
    ELSE [result |-> DiscoverPoll(Head(q)), taken |-> <<Head(q)>>,
          rest |-> Tail(q)]

\* The balancer polls the adapter once (Discover::poll) and applies the
\* Change it gets.  Nothing in the adapter remembers an error it returned:
\* the next call polls the resolution again.
DiscoverStep ==
    /\ Len(consumed) < MaxEvents
    /\ LET t == DiscoverTurn(resolution)
           st == StatusApply([endpoints |-> endpoints, count |-> count,
                              is_empty |-> is_empty], t.result)
       IN  /\ resolution' = t.rest
           /\ consumed' = consumed \o t.taken
           /\ emitted' = IF t.result = NotReadyChange THEN emitted
                          ELSE Append(emitted, t.result)
           /\ pool' = BalanceApply(pool, t.result)
           /\ endpoints' = st.endpoints
           /\ count' = st.count
           /\ is_empty' = st.is_empty
    /\ UNCHANGED <<chosen, fallback, pending, lastPoll, lastCall>>
    /\ UNCHANGED <<canonVars, hedgeVars, makeVars>>

\* ======================================================================
\*                  BALANCE HALF: the fallback composer
\* ======================================================================

\* Route, were the balancer branch to fall through to the fallback as well.
Route_Both(empty) == IF empty THEN {"fallback"} ELSE {"balance", "fallback"}

\* balance.rs Service::call: the path(s) a request is handed to, given the
\* value read from the shared flag.
Route(empty) == IF empty THEN {"fallback"} ELSE {"balance"}

\* Outcome of a readiness check: Ready, NotReady, or Err with the error's
\* tag (the composer's variant) and source (the wrapped error).
Poll(kind, tag, source) == [kind |-> kind, tag |-> tag, source |-> source]
NoPoll == [result   |-> Poll(None, None, None), empty |-> FALSE,
           balance  |-> Poll(None, None, None), fallback |-> None,
           polled   |-> {}]

\* balance.rs Service::poll_ready: the inner services whose poll_ready it
\* calls, given the flag.
PolledByReadiness(empty) == {"balance"}

\* balance.rs Service::poll_ready: what the composer reports, given the
\* outcome of the balancer's readiness check, the fallback's readiness and
\* the flag.
ComposerReadiness(balanceReadiness, fallbackReadiness, empty) ==
    IF balanceReadiness.kind = "Err"
    THEN Poll("Err", "Balance", balanceReadiness.source)
    ELSE balanceReadiness

\* Service::poll_ready.  Polls the balancer, which drains the discover
\* stream, and then chooses a ready endpoint if it has one.
ServicePollReady ==
    LET d == UpdateFromDiscover(
                [rest   |-> resolution,
                 pool   |-> pool,
                 status |-> [endpoints |-> endpoints, count |-> count,
                             is_empty |-> is_empty],
                 error  |-> None])
    IN  /\ resolution' = d.rest
        /\ endpoints' = d.status.endpoints
        /\ count' = d.status.count
        /\ is_empty' = d.status.is_empty
        /\ pool' = d.pool
        /\ \E ready \in SUBSET d.pool :
             \E pick \in (IF ready = {} \/ d.error # None THEN {None} ELSE ready) :
                LET balanceReadiness ==
                        IF d.error # None THEN Poll("Err", None, d.error)
                        ELSE IF pick = None THEN Poll("NotReady", None, None)
                        ELSE Poll("Ready", None, None)
                IN  /\ chosen' = pick
                    /\ lastPoll' =
                          [result   |-> ComposerReadiness(balanceReadiness,
                                            fallback, d.status.is_empty),
                           empty    |-> d.status.is_empty,
                           balance  |-> balanceReadiness,
                           fallback |-> fallback,
                           polled   |-> PolledByReadiness(
                                            d.status.is_empty)]
        /\ UNCHANGED <<fallback, pending, lastCall>>
        /\ UNCHANGED <<consumed, emitted>>
        /\ UNCHANGED <<canonVars, hedgeVars, makeVars>>

\* Errors an inner service (an endpoint behind the balancer, or the
\* fallback router) may fail a request with.
InnerErrors == {"reset", "timeout"}

\* What the future returned by an inner service's call resolves to.
CallResults ==
    {[kind |-> "Ok", error |-> None]} \cup [kind : {"Err"}, error : InnerErrors]

\* WrapError, were every dispatch error tagged as the balancer's.
WrapError_AlwaysBalance(path, e) == Poll("Err", "Balance", e)

\* balance.rs Service::call, the map_err of each branch: the error of the
\* path's future goes into that path's variant.
WrapError(path, e) ==
    Poll("Err", IF path = "fallback" THEN "Fallback" ELSE "Balance", e)

\* balance.rs Error::source: the wrapped error.
ErrorSource(err) == err.source

\* The response future of Service::call, given the path and what the inner
\* future resolved to.
Response(path, inner) ==
    IF inner.kind = "Ok" THEN Poll("Ok", None, None)
    ELSE WrapError(path, inner.error)

NoCall == [empty |-> FALSE, paths |-> {}, endpoint |-> None,
           afterReady |-> FALSE, fallbackChecked |-> FALSE,
           panic |-> FALSE,
           inner |-> [kind |-> None, error |-> None],
           response |-> Poll(None, None, None)]

\* Service::call.  The code reads the flag and hands the request to one
\* inner service; Balance::call expects a chosen ready endpoint and panics
\* without one.
ServiceCall ==
    /\ pending
    /\ LET paths == Route(is_empty)
           panic == "balance" \in paths /\ chosen = None
       IN  \E inner \in IF panic THEN {NoCall.inner} ELSE CallResults :
             lastCall' =
               [empty      |-> is_empty,
                paths      |-> paths,
                endpoint   |-> IF "balance" \in paths THEN chosen ELSE None,
                afterReady |-> (lastPoll.result.kind = "Ready"),
                fallbackChecked |-> ("fallback" \in lastPoll.polled
                                      /\ lastPoll.fallback = "Ready"),
                panic      |-> panic,
                inner      |-> inner,
                response   |-> IF panic THEN NoCall.response
                               ELSE Response(IF is_empty THEN "fallback"
                                             ELSE "balance", inner)]
    /\ chosen' = IF "balance" \in Route(is_empty) THEN None ELSE chosen
    /\ pending' = FALSE
    /\ lastPoll' = NoPoll
    /\ UNCHANGED <<resolution, endpoints, count, is_empty, pool, fallback>>
    /\ UNCHANGED <<consumed, emitted>>
    /\ UNCHANGED <<canonVars, hedgeVars, makeVars>>

\* Service::call by a caller that follows the protocol: only after a
\* readiness check that returned Ready.
ProtocolCall ==
    /\ lastPoll.result.kind = "Ready"
    /\ ServiceCall

\* ---- environment of the balance half

\* The resolution source produces one more update.
ResolutionProduce ==
    /\ Len(resolution) < MaxPending
    /\ \E up \in Updates : resolution' = Append(resolution, up)
    /\ UNCHANGED <<endpoints, count, is_empty, pool, chosen, fallback,
                   pending, lastPoll, lastCall>>
    /\ UNCHANGED <<consumed, emitted>>
    /\ UNCHANGED <<canonVars, hedgeVars, makeVars>>

\* The fallback router becomes ready or not ready.
FallbackChange ==
    /\ fallback' = IF fallback = "Ready" THEN "NotReady" ELSE "Ready"
    /\ UNCHANGED <<resolution, endpoints, count, is_empty, pool, chosen,
                   pending, lastPoll, lastCall>>
    /\ UNCHANGED <<consumed, emitted>>
    /\ UNCHANGED <<canonVars, hedgeVars, makeVars>>

\* A request arrives at the composer's caller.
NewRequest ==
    /\ ~pending
    /\ pending' = TRUE
    /\ UNCHANGED <<resolution, endpoints, count, is_empty, pool, chosen,
                   fallback, lastPoll, lastCall>>
    /\ UNCHANGED <<consumed, emitted>>
    /\ UNCHANGED <<canonVars, hedgeVars, makeVars>>

\* ======================================================================
\*                 HEDGE HALF: Stack::make and Policy
\* ======================================================================

\* Option::None for the budget a target supplies.
NoBudget == -1

\* CanHedge::can_hedge of the targets: no budget, or a budget of so many
\* speculative retries.
Budgets == {NoBudget} \cup (0..MaxBudget)

NotHedgeMade ==
    [either |-> None, innerOk |-> FALSE, canHedge |-> NoBudget,
     budget |-> NoBudget]

\* HedgeMake, were the decorator put around every inner service.
HedgeMake_AlwaysWraps(innerOk, canHedge) ==
    IF ~innerOk THEN "Err" ELSE "A"

\* hedge.rs Stack::make: the inner stack's make runs first and its error is
\* returned; the value is wrapped in Hedge (Either::A) when can_hedge gives
\* a budget and returned as it is (Either::B) otherwise.
HedgeMake(innerOk, canHedge) ==
    IF ~innerOk THEN "Err"
    ELSE IF canHedge # NoBudget THEN "A"
    ELSE "B"

\* Budget::has_budget: the budget still permits a speculative retry.
HasBudget(t) == t > 0

\* CanRetry, were the budget not consulted.
CanRetry_Always(t) == TRUE

\* hedge.rs Policy::can_retry: the budget's answer.
CanRetry(t) == HasBudget(t)

\* hedge.rs Policy::clone_request: the budget's clone of the request, None
\* for a request whose body cannot be replayed.
CloneRequest(req) == IF req.clonable THEN "clone" ELSE None

\* ======================================================================
\*                 HEDGE HALF: the decorator
\* ======================================================================

Requests == 1..MaxRequests

\* A request not yet dispatched.
NewReq ==
    [phase |-> "new", clonable |-> FALSE, timer |-> None, primary |-> None,
     retry |-> None, asked |-> FALSE, denied |-> FALSE, from |-> None,
     result |-> None]

\* ReturnToken, were the token of a retry not handed back.
ReturnToken_Leaks(t, retry) == t

\* The budget after a request settles: a retry that was in flight hands its
\* token back, whether it completed or was cancelled.
ReturnToken(t, retry) == IF retry = "InFlight" THEN t + 1 ELSE t

\* Stack::make for a target.
HedgeStackMake ==
    /\ hedgeMade = NotHedgeMade
    /\ \E innerOk \in BOOLEAN, canHedge \in Budgets :
         /\ hedgeMade' =
               [either |-> HedgeMake(innerOk, canHedge),
                innerOk |-> innerOk, canHedge |-> canHedge,
                budget |-> IF HedgeMake(innerOk, canHedge) = "A"
                           THEN canHedge ELSE NoBudget]
         /\ tokens' = IF HedgeMake(innerOk, canHedge) = "A"
                       /\ canHedge # NoBudget
                       THEN canHedge ELSE 0
    /\ UNCHANGED reqs
    /\ UNCHANGED <<balanceVars, canonVars, makeVars>>

\* A request is dispatched: the primary request starts; behind the
\* decorator a timer is armed.
HedgeCall(r) ==
    /\ hedgeMade.either \in {"A", "B"}
    /\ reqs[r].phase = "new"
    /\ \E c \in BOOLEAN :
         reqs' = [reqs EXCEPT ![r] =
                    [@ EXCEPT !.phase = "waiting", !.clonable = c,
                              !.primary = "InFlight",
                              !.timer = IF hedgeMade.either = "A"
                                        THEN "armed" ELSE None]]
    /\ UNCHANGED <<hedgeMade, tokens>>
    /\ UNCHANGED <<balanceVars, canonVars, makeVars>>

\* The timer fires before the primary completed: a second request is
\* issued when the policy permits a retry and gives a clone; it takes a
\* token of the budget.
HedgeTimer(r) ==
    /\ reqs[r].phase = "waiting"
    /\ reqs[r].timer = "armed"
    /\ LET issue == CanRetry(tokens) /\ CloneRequest(reqs[r]) # None
       IN  /\ reqs' = [reqs EXCEPT ![r] =
                         [@ EXCEPT !.timer = "fired", !.asked = TRUE,
                                   !.denied = ~HasBudget(tokens),
                                   !.retry = IF issue THEN "InFlight"
                                             ELSE None]]
           /\ tokens' = IF issue THEN tokens - 1 ELSE tokens
    /\ UNCHANGED hedgeMade
    /\ UNCHANGED <<balanceVars, canonVars, makeVars>>

\* The primary completes first: its result is handed back, the timer is
\* cancelled with it, and a retry in flight is cancelled.
HedgePrimaryDone(r) ==
    /\ reqs[r].phase = "waiting"
    /\ reqs[r].primary = "InFlight"
    /\ \E out \in {"Ok", "Err"} :
         reqs' = [reqs EXCEPT ![r] =
                    [@ EXCEPT !.phase = "done", !.primary = out,
                              !.from = "primary", !.result = out,
                              !.timer = IF @ = "armed" THEN "cancelled"
                                        ELSE @,
                              !.retry = IF @ = "InFlight" THEN "Cancelled"
                                        ELSE @]]
    /\ tokens' = ReturnToken(tokens, reqs[r].retry)
    /\ UNCHANGED hedgeMade
    /\ UNCHANGED <<balanceVars, canonVars, makeVars>>

\* The retry completes first: its result is handed back and the primary is
\* cancelled.
HedgeRetryDone(r) ==
    /\ reqs[r].phase = "waiting"
    /\ reqs[r].retry = "InFlight"
    /\ \E out \in {"Ok", "Err"} :
         reqs' = [reqs EXCEPT ![r] =
                    [@ EXCEPT !.phase = "done", !.retry = out,
                              !.from = "retry", !.result = out,
                              !.primary = "Cancelled"]]
    /\ tokens' = ReturnToken(tokens, reqs[r].retry)
    /\ UNCHANGED hedgeMade
    /\ UNCHANGED <<balanceVars, canonVars, makeVars>>

\* The caller drops the response future: whatever is in flight for the
\* request is cancelled.
HedgeDrop(r) ==
    /\ reqs[r].phase = "waiting"
    /\ reqs' = [reqs EXCEPT ![r] =
                  [@ EXCEPT !.phase = "cancelled", !.primary = "Cancelled",
                            !.timer = IF @ = "armed" THEN "cancelled" ELSE @,
                            !.retry = IF @ = "InFlight" THEN "Cancelled"
                                      ELSE @]]
    /\ tokens' = ReturnToken(tokens, reqs[r].retry)
    /\ UNCHANGED hedgeMade
    /\ UNCHANGED <<balanceVars, canonVars, makeVars>>

NextHedge ==
    \/ HedgeStackMake
    \/ \E r \in Requests : HedgeCall(r)
    \/ \E r \in Requests : HedgeTimer(r)
    \/ \E r \in Requests : HedgePrimaryDone(r)
    \/ \E r \in Requests : HedgeRetryDone(r)
    \/ \E r \in Requests : HedgeDrop(r)

\* ======================================================================
\*                 BALANCE HALF: MakeSvc::call and MakeFuture
\* ======================================================================

Futures == 1..MaxFutures

\* Errors the discovery future may fail with.
MakeErrors == {"discover"}

\* A MakeFuture that MakeSvc::call has not created yet.
NoFuture ==
    [making |-> None, inner |-> None, polls |-> 0, yielded |-> 0,
     innerPoll |-> Poll(None, None, None), out |-> Poll(None, None, None)]

\* What a poll of the discovery future may return.  While it is pending:
\* NotReady, Ready or an error.  Once it has completed (with an error; its
\* item is taken away with it) its behaviour is not defined: it may return
\* anything, or panic.
InnerPolls(inner) ==
    {Poll("NotReady", None, None), Poll("Ready", None, None)}
        \cup {Poll("Err", None, e) : e \in MakeErrors}
        \cup (IF inner = "Pending" THEN {} ELSE {Poll("Panic", None, None)})

\* balance.rs Making::poll: the Making after the call and what it returned
\* (true, false, an error, or a panic), given what the wrapped future's
\* poll returns.
MakingPoll(making, res) ==
    CASE making = "NotReady" ->
            CASE res.kind = "Ready"    -> [making |-> "Ready", ret |-> "true",
                                           error |-> None]
              [] res.kind = "NotReady" -> [making |-> making, ret |-> "false",
                                           error |-> None]
              [] res.kind = "Err"      -> [making |-> making, ret |-> "Err",
                                           error |-> res.source]
              [] OTHER                 -> [making |-> making, ret |-> "Panic",
                                           error |-> None]
      [] making = "Ready" -> [making |-> making, ret |-> "true", error |-> None]
      [] OTHER            -> [making |-> making, ret |-> "Panic", error |-> None]

\* MakingTake, were the item handed out without marking the Making Over.
MakingTake_LeavesReady(making) == making

\* balance.rs Making::take: the Making is replaced by Over.
MakingTake(making) == "Over"

\* balance.rs MakeFuture::poll: the Making after the call and the result.
MakeFuturePoll(making, res) ==
    LET p == MakingPoll(making, res)
    IN  CASE p.ret = "Err"   -> [making |-> p.making,
                                 out |-> Poll("Err", "Balance", p.error)]
          [] p.ret = "Panic" -> [making |-> p.making,
                                 out |-> Poll("Panic", None, None)]
          [] p.ret = "true"  -> [making |-> MakingTake(p.making),
                                 out |-> Poll("Ready", None, None)]
          [] OTHER           -> [making |-> p.making,
                                 out |-> Poll("NotReady", None, None)]

\* MakeSvc::call: a MakeFuture around the discovery future for a target.
MakeSvcCall(f) ==
    /\ futs[f].making = None
    /\ futs' = [futs EXCEPT ![f] =
                  [@ EXCEPT !.making = "NotReady", !.inner = "Pending"]]
    /\ UNCHANGED <<balanceVars, canonVars, hedgeVars>>

\* MakeFuture::poll.  The discovery future is polled only while the Making
\* is NotReady.
MakeFuturePollStep(f) ==
    /\ futs[f].making # None
    /\ futs[f].polls < MaxPolls
    /\ \E res \in IF futs[f].making = "NotReady"
                   THEN InnerPolls(futs[f].inner)
                   ELSE {Poll(None, None, None)} :
         LET r == MakeFuturePoll(futs[f].making, res)
         IN  futs' = [futs EXCEPT ![f] =
                        [making    |-> r.making,
                         inner     |-> IF res.kind = "Err" THEN "Failed"
                                       ELSE IF res.kind = "Ready" THEN "Done"
                                       ELSE futs[f].inner,
                         polls     |-> futs[f].polls + 1,
                         yielded   |-> IF r.out.kind = "Ready"
                                       THEN futs[f].yielded + 1
                                       ELSE futs[f].yielded,
                         innerPoll |-> res,
                         out       |-> r.out]]
    /\ UNCHANGED <<balanceVars, canonVars, hedgeVars>>

NextMake ==
    \/ \E f \in Futures : MakeSvcCall(f)
    \/ \E f \in Futures : MakeFuturePollStep(f)

\* Initial state.  Balance half: MakeFuture::poll has just built the
\* Service and nothing was discovered yet.  Canonicalize half: the Stack
\* was bound and its make has not been called.
Init ==
    /\ resolution = <<>>
    /\ endpoints = {}
    /\ count = 0
    /\ is_empty = TRUE
    /\ pool = {}
    /\ chosen = None
    /\ fallback = "Ready"
    /\ pending = FALSE
    /\ lastPoll = NoPoll
    /\ lastCall = NoCall
    /\ consumed = <<>>
    /\ emitted = <<>>
    /\ state = "NotSpawned"
    /\ resolved = AwaitingInitial
    /\ deadline = 0
    /\ queryStart = 0
    /\ chan = <<>>
    /\ rxAlive = FALSE
    /\ now = 0
    /\ service = NoTarget
    /\ svcPoll = NoSvcPoll
    /\ lastOutcome = NoOutcome
    /\ nSent = 0
    /\ lastSent = NoTarget
    /\ lastDrained = NoTarget
    /\ chanSeq = <<>>
    /\ appliedSeq = 0
    /\ sinceOutcome = 0
    /\ original = NoTarget
    /\ made = NotMade
    /\ svcCall = NoSvcCall
    /\ hedgeMade = NotHedgeMade
    /\ tokens = 0
    /\ reqs = [r \in Requests |-> NewReq]
    /\ futs = [f \in Futures |-> NoFuture]

NextBalance ==
    \/ ServicePollReady
    \/ ServiceCall
    \/ ResolutionProduce
    \/ FallbackChange
    \/ NewRequest

SpecBalance == Init /\ [][NextBalance]_vars

\* Callers that follow the protocol, scheduled fairly.
NextProtocol ==
    \/ ServicePollReady
    \/ ProtocolCall
    \/ ResolutionProduce
    \/ FallbackChange
    \/ NewRequest

SpecProtocol ==
    /\ Init
    /\ [][NextProtocol]_vars
    /\ WF_vars(ServicePollReady)
    /\ WF_vars(ProtocolCall)

\* The discovery adapter polled on its own, one call at a time.
NextDiscover ==
    \/ DiscoverStep
    \/ ResolutionProduce

SpecDiscover == Init /\ [][NextDiscover]_vars

SpecHedge == Init /\ [][NextHedge]_vars

SpecMake == Init /\ [][NextMake]_vars

SpecCanon == Init /\ [][NextCanon]_vars

\* The canonicalize half under its scheduling: the clock advances, a Delay
\* that fired wakes the task and the executor polls it, and every refine
\* wrapped in Timeout completes with an answer, an error or the timeout.
\* Nothing obliges the consumer to check readiness or to go away.
SpecCanonFair ==
    /\ Init
    /\ [][NextCanon]_vars
    /\ WF_vars(Tick)
    /\ WF_vars(Rebase)
    /\ WF_vars(TaskExpired)
    /\ WF_vars(TaskRefined \/ TaskFailed)

\* ======================================================================
\*                 PROPERTIES OF THE BALANCE HALF
\* ======================================================================

\* C1: every dispatch through the fallback composer hands the request to
\* exactly one path: the fallback when the flag read empty at the call, the
\* balancer otherwise; never both, never neither.
C1_DispatchExactlyOnePath ==
    lastCall # NoCall =>
        /\ Cardinality(lastCall.paths) = 1
        /\ lastCall.empty => lastCall.paths = {"fallback"}
        /\ ~lastCall.empty => lastCall.paths = {"balance"}

\* A request was dispatched to the fallback while the pool was empty.
C1_Witness ==
    /\ lastCall # NoCall
    /\ lastCall.empty
    /\ "fallback" \in lastCall.paths
    /\ pool = {}

\* C2: the composer's readiness check reports the fallback's readiness
\* whenever the pool is empty and the balancer's readiness whenever it is
\* not.
C2_ReadinessFollowsFlag ==
    lastPoll # NoPoll =>
        IF lastPoll.empty
        THEN lastPoll.result = Poll(lastPoll.fallback, None, None)
        ELSE lastPoll.result =
                IF lastPoll.balance.kind = "Err"
                THEN Poll("Err", "Balance", lastPoll.balance.source)
                ELSE lastPoll.balance

\* C3: with the pool empty and the fallback ready, a caller that follows
\* the protocol eventually has its request dispatched (to the fallback); it
\* is not held back until an endpoint appears.
C3_EmptyPoolReachesFallback ==
    (pending /\ is_empty /\ fallback = "Ready")
        ~> (~pending \/ ~is_empty \/ fallback # "Ready")

\* C4: the emptiness flag is true exactly when no endpoint is live: it
\* agrees with the count, with the adapter's endpoint set and with the set
\* of endpoints the balancer was told about.
C4_FlagIffNoLiveEndpoint ==
    /\ is_empty <=> (count = 0)
    /\ count = Cardinality(endpoints)
    /\ is_empty <=> (pool = {})

\* The pool was populated, served a request, and was drained again.
C4_Witness ==
    /\ is_empty
    /\ lastCall.paths = {"balance"}
    /\ ~lastCall.panic

\* ======================================================================
\*                 PROPERTIES OF THE CANONICALIZE HALF
\* ======================================================================

\* The value the task last decided its consumer should hold: the cached
\* refinement, or the original target after an initial failure.
TaskValue ==
    IF resolved.tag = "Resolved" THEN resolved.value ELSE Original

\* C5: the first DNS outcome of the task (success, failure or timeout)
\* publishes exactly one value on the channel of a live consumer: the
\* refined target on success, the original target on failure.
C5_FirstOutcomePublishesOnce ==
    (/\ lastOutcome.kind # None
     /\ lastOutcome.cache = AwaitingInitial
     /\ lastOutcome.send # "Disconnected")
        => /\ lastOutcome.send = "Ok"
           /\ nSent = 1
           /\ lastSent = IF lastOutcome.kind = "Ok"
                         THEN WithCanonical(Original, lastOutcome.target.name)
                         ELSE Original

\* The first query failed and the original target sits in the channel.
C5_Witness ==
    /\ lastOutcome.kind = "Err"
    /\ lastOutcome.cache = AwaitingInitial
    /\ nSent = 1
    /\ chan = <<Original>>

\* C6: until the Service has received its first published target every
\* readiness check returns NotReady, never an error; it reports Ready only
\* after the first DNS outcome was published and received.
C6_NotReadyUntilFirstTarget ==
    /\ (svcPoll # NoSvcPoll /\ ~svcPoll.received) => svcPoll.kind = "NotReady"
    /\ svcPoll.kind = "Ready" =>
          /\ svcPoll.received
          /\ lastOutcome.kind # None
          /\ nSent >= 1

\* The Service was polled while the first query was still pending.
C6_Witness ==
    /\ svcPoll.kind = "NotReady"
    /\ ~svcPoll.received
    /\ lastOutcome.kind = None
    /\ state = "Pending"

\* C7: a resolution that yields the same canonical target as the last
\* published one does not publish again.
C7_SameTargetNotRepublished ==
    (/\ lastOutcome.kind = "Ok"
     /\ lastOutcome.prevSent.origin = "resolved"
     /\ SameTarget(lastOutcome.target, lastOutcome.prevSent))
        => lastOutcome.send # "Ok"

\* C8: a DNS failure publishes only while the cache is AwaitingInitial, and
\* then it publishes the original target and stores Unresolved; a failure
\* with the cache Unresolved or Resolved publishes nothing and leaves the
\* cache as it was.
C8_FailurePublishesOnlyInitially ==
    lastOutcome.kind = "Err" =>
        IF lastOutcome.cache = AwaitingInitial
        THEN /\ lastOutcome.send \in {"Ok", "Disconnected"}
             /\ lastOutcome.send = "Ok" =>
                    /\ lastSent = Original
                    /\ nSent = 1
                    /\ resolved = Unresolved
        ELSE /\ lastOutcome.send = None
             /\ resolved = lastOutcome.cache
             /\ lastSent = lastOutcome.prevSent

\* A second failure, after the original was published, published nothing.
C8_Witness ==
    /\ lastOutcome.kind = "Err"
    /\ lastOutcome.cache = Unresolved
    /\ lastOutcome.send = None
    /\ nSent = 1

\* C9: once the consumer holds a service built from a resolved target it
\* never goes back to one built from the original target published after a
\* failure, and a failed re-query with a Resolved cache changes neither the
\* channel, nor the cache, nor the held service.
C9_FailureKeepsLastGood ==
    [][ /\ (rxAlive' /\ service.origin = "resolved")
              => service'.origin = "resolved"
        /\ (/\ lastOutcome' # lastOutcome
            /\ lastOutcome'.kind = "Err"
            /\ resolved.tag = "Resolved")
              => /\ chan' = chan
                 /\ service' = service
                 /\ resolved' = resolved
                 /\ state' \in {"ValidUntil", "Pending"} ]_vars

\* A re-query failed while the consumer held the service of the cached
\* resolution; it still holds it.
C9_Witness ==
    /\ lastOutcome.kind = "Err"
    /\ lastOutcome.cache.tag = "Resolved"
    /\ service.origin = "resolved"
    /\ SameTarget(service, resolved.value)
    /\ chan = <<>>

\* C10: a consumer that keeps polling ends up with the service of the most
\* recent target the task resolved: whenever it has drained the channel
\* and built the last value it took, that value is the task's latest.
C10_DrainedConsumerHoldsLatest ==
    (/\ rxAlive
     /\ chan = <<>>
     /\ resolved # AwaitingInitial
     /\ SameTarget(service, lastDrained))
        => SameTarget(service, TaskValue)

\* C11: the channel holds at least two values: a publish that finds fewer
\* than two values queued at a live consumer is enqueued behind them, so
\* the initial value and one update are both delivered without a readiness
\* check in between.
C11_ChannelHoldsTwo ==
    [][ (/\ state = "Pending"
         /\ state' # "Pending"
         /\ lastOutcome'.send # None
         /\ rxAlive
         /\ Len(chan) < 2)
            => /\ lastOutcome'.send = "Ok"
               /\ chan' = Append(chan, lastSent')
               /\ nSent' = nSent + 1 ]_vars

\* Two values were published and both are queued; the consumer never
\* checked readiness.
C11_Witness ==
    /\ nSent = 2
    /\ Len(chan) = 2
    /\ chan[1] = Original
    /\ chan[2].origin = "resolved"
    /\ svcPoll = NoSvcPoll

\* C12: the Service holds one downstream service at a time and each applied
\* update replaces it: a readiness check that empties the channel without a
\* build error leaves the held service built from the last value it took.
C12_HeldServiceIsLastDrained ==
    [][ (/\ Len(chan) > 0
         /\ chan' = <<>>
         /\ rxAlive'
         /\ ~svcPoll'.makeErr)
            => /\ service' = chan[Len(chan)]
               /\ lastDrained' = service' ]_vars

C12_Witness ==
    /\ svcPoll.taken = 2
    /\ ~svcPoll.makeErr
    /\ chan = <<>>
    /\ service = lastDrained
    /\ service.origin = "resolved"

\* C13: when several updates are queued, the downstream factory is invoked
\* once per readiness check, for the latest value only.
C13_FactoryOncePerCheck ==
    svcPoll.taken >= 1 => svcPoll.makes = 1

\* C14: values are received in the order they were published: the queue is
\* always in publish order and ahead of the value applied, and the value
\* applied never goes back to an older one.
C14_AppliedInPublishOrder ==
    [][ /\ rxAlive' => appliedSeq' >= appliedSeq
        /\ \A i \in DOMAIN chanSeq' :
              /\ chanSeq'[i] > appliedSeq'
              /\ i > 1 => chanSeq'[i - 1] < chanSeq'[i] ]_vars

C14_Witness ==
    /\ appliedSeq = 2
    /\ svcPoll.taken = 2
    /\ service.origin = "resolved"
    /\ nSent = 2

\* C15: after a successful resolution with deadline D the task issues no
\* DNS query before D, and issues one new query, not more, when the timer
\* armed for D fires (which it does, for a D within the clock's horizon).
C15_OneQueryAtDeadline ==
  /\ (/\ lastOutcome.kind = "Ok"
      /\ state = "ValidUntil"
      /\ deadline <= MaxTime)
        ~> (state = "Pending" /\ sinceOutcome = 1 /\ queryStart >= deadline)
  /\
    [][ /\ (lastOutcome.kind = "Ok" /\ state = "ValidUntil"
                /\ state' = "Pending")
            => /\ now >= deadline
               /\ sinceOutcome = 0
               /\ sinceOutcome' = 1
               /\ queryStart' = now
        /\ (lastOutcome'.kind = "Ok" /\ state' # "Done")
            => /\ sinceOutcome' <= 1
               /\ now' < deadline' => sinceOutcome' = 0
               /\ sinceOutcome' = 1 => queryStart' >= deadline' ]_vars

\* The last outcome was a refinement and the next query went out at its
\* deadline.
C15_Witness ==
    /\ lastOutcome.kind = "Ok"
    /\ state = "Pending"
    /\ sinceOutcome = 1
    /\ deadline > 0
    /\ queryStart = deadline
    /\ now = deadline

\* C16: after a failure the next query is scheduled at the negative-cache
\* deadline when the error is a no-records error carrying one, and otherwise
\* DNS_ERROR_TTL after the failure; no query is issued before that.
C16_RetryAfterFailure ==
    [][ /\ (state = "Pending" /\ state' = "ValidUntil"
                /\ lastOutcome'.kind = "Err")
            => deadline' =
                 IF /\ lastOutcome'.failure.kind = "NoRecords"
                    /\ lastOutcome'.failure.cached
                 THEN now + lastOutcome'.failure.negTtl
                 ELSE now + DNS_ERROR_TTL
        /\ (lastOutcome.kind = "Err" /\ state = "ValidUntil"
                /\ state' = "Pending")
            => /\ now >= deadline
               /\ queryStart' = now
        /\ (lastOutcome'.kind = "Err" /\ state' # "Done"
                /\ now' < deadline')
            => state' = "ValidUntil" ]_vars

\* A no-records error with a negative-cache deadline one second ahead was
\* handled at time 0, and the next query went out at time 1.
C16_Witness ==
    /\ lastOutcome.kind = "Err"
    /\ lastOutcome.failure.kind = "NoRecords"
    /\ lastOutcome.failure.cached
    /\ state = "Pending"
    /\ sinceOutcome = 1
    /\ deadline = 1
    /\ queryStart = 1

\* C17: a DNS failure never terminates the task while the consumer is
\* there, and after every such failure the task eventually issues another
\* query (within the horizon of the clock).
C17_FailureLeadsToQuery ==
    /\ [](lastOutcome.kind = "Err" /\ lastOutcome.send # "Disconnected"
            => state # "Done")
    /\ (/\ lastOutcome.kind = "Err"
        /\ rxAlive
        /\ state = "ValidUntil"
        /\ deadline <= MaxTime)
          ~> (state = "Pending" /\ sinceOutcome = 1)

\* After a failure handled with the consumer alive the next query is out.
C17_Witness ==
    /\ lastOutcome.kind = "Err"
    /\ lastOutcome.send # "Disconnected"
    /\ rxAlive
    /\ state = "Pending"
    /\ sinceOutcome = 1
    /\ nSent >= 1

\* C18: once the receiver has been dropped, the task's next publish attempt
\* finds the channel disconnected and the task completes in that step: the
\* cache is not updated, no timer is armed and no query is issued, then or
\* later.
C18_DisconnectCompletesTask ==
    [][ /\ (/\ ~rxAlive
            /\ state = "Pending"
            /\ lastOutcome' # lastOutcome
            /\ \/ /\ lastOutcome'.kind = "Ok"
                  /\ NeedsPublish(resolved, lastOutcome'.target)
               \/ /\ lastOutcome'.kind = "Err"
                  /\ PublishOnFailure(resolved))
            => /\ lastOutcome'.send = "Disconnected"
               /\ state' = "Done"
               /\ sinceOutcome' = 0
               /\ UNCHANGED <<resolved, deadline, queryStart, chan, nSent>>
        /\ state = "Done"
            => /\ state' = "Done"
               /\ UNCHANGED <<resolved, deadline, queryStart, chan, nSent,
                              lastOutcome, sinceOutcome>> ]_vars

\* The task published a value, the consumer went away, and the next
\* differing refinement ended the task.
C18_Witness ==
    /\ state = "Done"
    /\ ~rxAlive
    /\ lastOutcome.kind = "Ok"
    /\ lastOutcome.send = "Disconnected"
    /\ nSent = 1
    /\ resolved.tag = "Resolved"
    /\ ~SameTarget(resolved.value, lastOutcome.target)

\* C19: once the consumer has gone away the task eventually terminates,
\* whatever DNS answers afterwards: a query outstanding with the receiver
\* dropped leads to the task being done.
C19_TerminatesAfterDrop ==
    (~rxAlive /\ state = "Pending") ~> (state = "Done")

\* C20: for a target that is not refinable, make builds the inner stack
\* directly with the unchanged target, spawns no task and never issues a DNS
\* query; a task exists only for a target that has an uncanonical name.
C20_ConcreteTargetBypassesDns ==
    /\ (made # NotMade /\ UncanonicalName(made.name) = "")
          => /\ made.either \in {"B", "Err"}
             /\ made.inner = made.name
             /\ state = "NotSpawned"
             /\ original = NoTarget
             /\ sinceOutcome = 0
             /\ lastOutcome = NoOutcome
             /\ nSent = 0
    /\ state # "NotSpawned"
          => /\ made.either = "A"
             /\ original = made.name
             /\ UncanonicalName(original) # ""

\* make was given the socket address and returned the inner stack's value;
\* the clock has run to its horizon and no query was issued.
C20_Witness ==
    /\ made.either = "B"
    /\ made.name = Concrete
    /\ made.inner = Concrete
    /\ state = "NotSpawned"
    /\ now = MaxTime

\* ======================================================================
\*                 PROPERTIES OF THE DISCOVERY ADAPTER
\* ======================================================================

\* C21: for each Add the adapter calls the endpoint stack once and, the
\* service built, returns one Insert with the same key and that service;
\* for each Remove it returns one Remove with the same key and does not
\* call the endpoint stack.
C21_OneChangePerUpdate ==
    \A i \in DOMAIN consumed \cap DOMAIN emitted :
        /\ consumed[i].op = "Add" =>
              /\ emitted[i].makes = 1
              /\ MakeEndpoint(consumed[i].target) = "Ok" =>
                    /\ emitted[i].kind = "Insert"
                    /\ emitted[i].addr = consumed[i].addr
                    /\ emitted[i].svc = consumed[i].target
        /\ consumed[i].op = "Remove" =>
              /\ emitted[i].makes = 0
              /\ emitted[i].kind = "Remove"
              /\ emitted[i].addr = consumed[i].addr

\* An Add was answered by an Insert and a later Remove by a Remove.
C21_Witness ==
    /\ Len(emitted) = 2
    /\ consumed[1].op = "Add"
    /\ emitted[1].kind = "Insert"
    /\ consumed[2].op = "Remove"
    /\ emitted[2].kind = "Remove"

\* C22: a failure of the resolution source leaves the adapter as the
\* Resolve variant and a failure of the endpoint stack as the Stack
\* variant; the poll returns the error and changes no pool.
C22_FailuresAreTagged ==
    [][ (consumed' # consumed /\ resolution # <<>>)
          => LET up == Head(resolution)
                 out == emitted'[Len(emitted')]
             IN  /\ Len(emitted') = Len(emitted) + 1
                 /\ up.op = "Fail" =>
                       /\ out.kind = "Err"
                       /\ out.error = "Resolve"
                       /\ pool' = pool
                 /\ (up.op = "Add" /\ MakeEndpoint(up.target) = "Err") =>
                       /\ out.kind = "Err"
                       /\ out.error = "Stack"
                       /\ pool' = pool ]_vars

\* Both kinds of failure were surfaced.
C22_Witness ==
    /\ Len(emitted) = 2
    /\ emitted[1].error = "Resolve"
    /\ emitted[2].error = "Stack"
    /\ pool = {}

\* C23: once the adapter has surfaced a failure the discovery stream is
\* over: no later poll returns an Insert or a Remove.
C23_ErrorEndsStream ==
    \A i, j \in DOMAIN emitted :
        (i < j /\ emitted[i].kind = "Err")
            => emitted[j].kind \notin {"Insert", "Remove"}

\* C24: the adapter returns pool changes in the order the resolution
\* produced the updates, one result per update: what it returned so far
\* answers, position by position, the updates it received.
C24_ChangesInSourceOrder ==
    /\ Len(emitted) = Len(consumed)
    /\ \A i \in DOMAIN emitted :
          /\ emitted[i].kind = "Insert" =>
                consumed[i].op = "Add" /\ consumed[i].addr = emitted[i].addr
          /\ emitted[i].kind = "Remove" =>
                consumed[i].op = "Remove"
                    /\ consumed[i].addr = emitted[i].addr
          /\ emitted[i].kind = "Err" => consumed[i].op \in {"Fail", "Add"}

\* Three updates for the same key were answered in order.
C24_Witness ==
    /\ Len(consumed) = 3
    /\ <<consumed[1].op, consumed[2].op, consumed[3].op>>
          = <<"Add", "Remove", "Add">>
    /\ consumed[1].addr = consumed[2].addr
    /\ consumed[2].addr = consumed[3].addr
    /\ <<emitted[1].kind, emitted[2].kind, emitted[3].kind>>
          = <<"Insert", "Remove", "Insert">>
    /\ Cardinality(pool) = 1

\* C25: a Remove for a key that is not in the endpoint set, and an Add for
\* a key already in it, is answered by an error and not forwarded as a pool
\* change.
C25_UnknownKeyIsError ==
    [][ (consumed' # consumed /\ resolution # <<>>)
          => LET up == Head(resolution)
                 out == emitted'[Len(emitted')]
             IN  (\/ up.op = "Remove" /\ up.addr \notin pool
                  \/ up.op = "Add" /\ up.addr \in pool)
                    => out.kind = "Err" ]_vars

\* C26: every error leaving the fallback composer carries the path it came
\* from: an error of the balancer's readiness check or of a dispatch to the
\* balancer is a Balance error, an error of a dispatch to the fallback is a
\* Fallback error, and its source is the inner error, unchanged.
C26_ErrorsTaggedByPath ==
    /\ lastPoll.result.kind = "Err" =>
          /\ lastPoll.result.tag = "Balance"
          /\ ErrorSource(lastPoll.result) = lastPoll.balance.source
    /\ lastCall.response.kind = "Err" =>
          /\ lastCall.inner.kind = "Err"
          /\ ErrorSource(lastCall.response) = lastCall.inner.error
          /\ lastCall.response.tag =
                IF lastCall.paths = {"fallback"} THEN "Fallback"
                ELSE "Balance"
    /\ (lastCall.inner.kind = "Err" /\ ~lastCall.panic) =>
          lastCall.response.kind = "Err"

\* A dispatch to the fallback failed and left as a Fallback error.
C26_Witness ==
    /\ lastCall.paths = {"fallback"}
    /\ lastCall.inner.kind = "Err"
    /\ lastCall.response = Poll("Err", "Fallback", lastCall.inner.error)

\* ======================================================================
\*                 PROPERTIES OF THE HEDGE DECORATOR
\* ======================================================================

\* C27: the hedge stack wraps the inner service exactly when the target
\* supplies a retry budget; a target without one gets the bare inner
\* service, for which no timer is ever armed and no retry issued; when the
\* inner stack fails to make the service the error is returned and nothing
\* is wrapped.
C27_WrapsIffBudget ==
    hedgeMade # NotHedgeMade =>
       /\ hedgeMade.either = "A" <=>
             (hedgeMade.innerOk /\ hedgeMade.canHedge # NoBudget)
       /\ hedgeMade.either = "B" <=>
             (hedgeMade.innerOk /\ hedgeMade.canHedge = NoBudget)
       /\ hedgeMade.either = "Err" <=> ~hedgeMade.innerOk
       /\ hedgeMade.either = "A" => hedgeMade.budget = hedgeMade.canHedge
       /\ hedgeMade.either # "A" =>
             \A r \in Requests :
                reqs[r].timer = None /\ reqs[r].retry = None
       /\ hedgeMade.either = "Err" =>
             \A r \in Requests : reqs[r] = NewReq

\* A target with a budget got the decorator and a request sent through it
\* has its timer armed.
C27_Witness ==
    /\ hedgeMade.either = "A"
    /\ hedgeMade.canHedge = MaxBudget
    /\ \E r \in Requests : reqs[r].timer = "armed"

\* C28: when the timer fires while the budget permits no retry, or for a
\* request that cannot be cloned, no second request is issued and the
\* budget is left alone; a request for which no second request was issued
\* completes with the primary's result, unmodified.
C28_NoRetryWithoutBudgetOrClone ==
    [][ \A r \in Requests :
          /\ ( /\ reqs[r].timer = "armed"
               /\ reqs'[r].timer = "fired"
               /\ (tokens = 0 \/ ~reqs[r].clonable) )
                => (reqs'[r].retry = None /\ tokens' = tokens)
          /\ (reqs'[r].phase = "done" /\ reqs'[r].retry = None)
                => /\ reqs'[r].from = "primary"
                   /\ reqs'[r].result = reqs'[r].primary ]_vars

\* A clonable request whose timer fired while another request held the
\* whole budget completed with the primary's result and without a retry.
C28_Witness ==
    \E r \in Requests :
       /\ reqs[r].clonable
       /\ reqs[r].asked
       /\ reqs[r].denied
       /\ reqs[r].phase = "done"
       /\ reqs[r].retry = None
       /\ reqs[r].from = "primary"

\* Speculative retries in flight.
Outstanding == Cardinality({r \in Requests : reqs[r].retry = "InFlight"})

\* C29: the speculative retries in flight never exceed the budget the
\* target supplied, and once nothing is in flight any more (every request
\* completed or was cancelled) the budget is back at that value.
C29_BudgetConserved ==
    hedgeMade.either = "A" =>
       /\ Outstanding <= hedgeMade.budget
       /\ (\A r \in Requests : reqs[r].phase # "waiting")
             => tokens = hedgeMade.budget

\* Every request has settled, one of them after a retry that completed
\* and one after a retry that was cancelled, and the budget is whole.
C29_Witness ==
    /\ hedgeMade.either = "A"
    /\ hedgeMade.budget >= 1
    /\ \A r \in Requests : reqs[r].phase \in {"done", "cancelled"}
    /\ \E r \in Requests : reqs[r].from = "retry"
    /\ \E r \in Requests : reqs[r].retry = "Cancelled"
    /\ tokens = hedgeMade.budget

\* ======================================================================
\*                 FURTHER PROPERTIES OF THE CANONICALIZER
\* ======================================================================

\* C31: whenever the task's cache is Resolved(n), n is the value the
\* consumer was last notified with, the last value enqueued on the
\* channel; the cache never holds a value whose send did not succeed.
C31_CacheIsLastEnqueued ==
    resolved.tag = "Resolved" =>
       /\ lastSent # NoTarget
       /\ SameTarget(resolved.value, lastSent)

\* ======================================================================
\*                 FURTHER PROPERTIES OF THE FALLBACK COMPOSER
\* ======================================================================

\* C32: a request is dispatched to the fallback service only if, since the
\* previous dispatch, the composer's readiness check polled the fallback
\* service and found it ready.
C32_FallbackCheckedBeforeDispatch ==
    "fallback" \in lastCall.paths => lastCall.fallbackChecked

\* ======================================================================
\*                 FURTHER PROPERTIES OF THE CANONICALIZE SERVICE
\* ======================================================================

\* C33: when building the downstream service fails for an update taken
\* during a readiness check, the check returns the error, the service held
\* when the failing update was taken (the one held before the check, or
\* the one built from the update just before the failing one) stays in
\* place, and the updates queued behind the failing one stay queued.
C33_MakeFailureKeepsServiceAndQueue ==
    [][ (rxAlive' /\ Len(chan') < Len(chan) /\ svcPoll'.makeErr)
          => LET k == svcPoll'.taken
             IN  /\ svcPoll'.kind = "Err"
                 /\ k >= 1
                 /\ chan' = SubSeq(chan, k + 1, Len(chan))
                 /\ service' = IF k = 1 THEN service ELSE chan[k - 1] ]_vars

\* The first update taken failed to build: the service held before is
\* still held and a later update is still queued.
C33_Witness ==
    /\ svcPoll.makeErr
    /\ svcPoll.kind = "Err"
    /\ svcPoll.taken = 1
    /\ service # NoTarget
    /\ Len(chan) >= 1

\* ======================================================================
\*                 FURTHER PROPERTIES OF THE CANONICALIZER TASK
\* ======================================================================

\* C34: a query that has not completed when the configured timeout has
\* passed is handled as a failure: with nothing published yet the original
\* target is published, a cache already set is kept, and the next query is
\* scheduled DNS_ERROR_TTL seconds later.
C34_TimeoutIsFailure ==
    [][ (/\ state = "Pending"
         /\ now' = now
         /\ <<state, deadline, lastOutcome>>' # <<state, deadline, lastOutcome>>
         /\ lastOutcome'.failure.kind = "Elapsed")
          => /\ now >= queryStart + Timeout
             /\ lastOutcome'.kind = "Err"
             /\ IF resolved = AwaitingInitial
                THEN /\ lastOutcome'.send \in {"Ok", "Disconnected"}
                     /\ lastOutcome'.send = "Ok" =>
                           /\ chan' = Append(chan, original)
                           /\ resolved' = Unresolved
                ELSE /\ lastOutcome'.send = None
                     /\ chan' = chan
                     /\ resolved' = resolved
             /\ lastOutcome'.send # "Disconnected" =>
                   /\ state' = "ValidUntil"
                   /\ deadline' = now + DNS_ERROR_TTL ]_vars

\* The first query timed out: the original target is queued and the task
\* waits out the error backoff.
C34_Witness ==
    /\ lastOutcome.failure.kind = "Elapsed"
    /\ lastOutcome.cache = AwaitingInitial
    /\ chan = <<Original>>
    /\ state = "ValidUntil"
    /\ deadline = now + DNS_ERROR_TTL
    /\ now = Timeout

\* ======================================================================
\*                 PROPERTIES OF THE MAKE FUTURE
\* ======================================================================

\* C35: a MakeFuture yields its service at most once: while the discovery
\* future is not ready it returns NotReady, when the discovery future
\* fails it fails with a Balance error carrying that failure, and every
\* poll after the one that yielded the service panics.
C35_MakeFutureYieldsOnce ==
    [][ \A f \in Futures :
          /\ futs'[f].yielded <= 1
          /\ futs'[f].polls # futs[f].polls =>
                /\ futs[f].yielded = 1 =>
                      futs'[f].out = Poll("Panic", None, None)
                /\ (futs[f].yielded = 0
                    /\ futs'[f].innerPoll.kind = "NotReady") =>
                      futs'[f].out = Poll("NotReady", None, None)
                /\ (futs[f].yielded = 0
                    /\ futs'[f].innerPoll.kind = "Err") =>
                      futs'[f].out = Poll("Err", "Balance",
                                          futs'[f].innerPoll.source)
                /\ (futs[f].yielded = 0
                    /\ futs'[f].innerPoll.kind = "Ready") =>
                      /\ futs'[f].out = Poll("Ready", None, None)
                      /\ futs'[f].yielded = 1 ]_vars

\* A MakeFuture was polled while discovery was pending, then yielded its
\* service, and the poll after that panicked.
C35_Witness ==
    \E f \in Futures :
       /\ futs[f].polls = MaxPolls
       /\ futs[f].yielded = 1
       /\ futs[f].making = "Over"
       /\ futs[f].out = Poll("Panic", None, None)

\* C36: while the Service exists, a downstream service once held is never
\* given up; a readiness check that returned Ready leaves one held, so a
\* call that follows it does not panic; and a call panics exactly when no
\* update has been applied before it.
C36_HeldServiceNeverLost ==
    [][ /\ (rxAlive' /\ service # NoTarget) => service' # NoTarget
        /\ svcPoll'.kind = "Ready" => service' # NoTarget
        /\ svcCall'.called =>
              /\ svcCall'.afterReady => ~svcCall'.panic
              /\ svcCall'.panic <=> (svcCall'.applied = 0) ]_vars

\* A call that followed a Ready readiness check found the service of an
\* applied update.
C36_Witness ==
    /\ svcCall.called
    /\ svcCall.afterReady
    /\ ~svcCall.panic
    /\ svcCall.target # NoTarget
    /\ svcCall.applied >= 1

\* C37: the task's cache only moves forward: from AwaitingInitial to
\* Unresolved or Resolved, from Unresolved to Resolved, from Resolved(x) to
\* Resolved(y) with y different from x; never back to AwaitingInitial and
\* never from Resolved to Unresolved.
C37_CacheMovesForward ==
    [][ resolved' # resolved =>
          /\ resolved' # AwaitingInitial
          /\ resolved = AwaitingInitial =>
                resolved'.tag \in {"Unresolved", "Resolved"}
          /\ resolved = Unresolved => resolved'.tag = "Resolved"
          /\ resolved.tag = "Resolved" =>
                /\ resolved'.tag = "Resolved"
                /\ ~SameTarget(resolved'.value, resolved.value) ]_vars

\* The original target, a resolved name and another resolved name are
\* queued: the cache went from Unresolved to Resolved and on to another
\* Resolved.
C37_Witness ==
    /\ lastOutcome.kind = "Ok"
    /\ lastOutcome.cache.tag = "Resolved"
    /\ resolved.tag = "Resolved"
    /\ ~SameTarget(resolved.value, lastOutcome.cache.value)
    /\ nSent = 3
    /\ Len(chan) = 3
    /\ chan[1] = Original

\* C38: with the cache Unresolved (the original target was published after
\* an initial failure) the first successful resolution is published to a
\* live consumer, also when the refined target equals the original target
\* the consumer already holds.
C38_FirstSuccessAfterFailurePublished ==
    (lastOutcome.kind = "Ok" /\ lastOutcome.cache = Unresolved)
       => /\ lastOutcome.send \in {"Ok", "Disconnected"}
          /\ lastOutcome.send = "Ok" =>
                /\ nSent = 2
                /\ lastSent = lastOutcome.target
                /\ lastOutcome.prevSent = Original
                /\ resolved = Resolved(lastOutcome.target)

\* The consumer holds the service of the original target, and the first
\* refinement, to the same name, is queued for it.
C38_Witness ==
    /\ lastOutcome.kind = "Ok"
    /\ lastOutcome.cache = Unresolved
    /\ SameTarget(lastOutcome.target, Original)
    /\ SameTarget(service, Original)
    /\ chan = <<lastOutcome.target>>
====
